---- MODULE Spec2Model ----
(***************************************************************************)
(* Label Highlighter: the history / persistence core of the roulette       *)
(* number tracker.  The repository holds two drafts of the page            *)
(* (MobileDashboard) and two drafts of the useLocalStorage hook; the       *)
(* model carries both, chosen once per build (pageVariant, hookVariant).   *)
(*                                                                         *)
(* Texts (the input field's value, the localStorage item) are sequences    *)
(* of one-character strings, so that parseInt, parseFloat, JSON.stringify  *)
(* and JSON.parse are computed character by character.                     *)
(***************************************************************************)
EXTENDS Integers, Sequences, FiniteSets, TLC

VARIABLES
    pageVariant,    \* "dashboard" (next.config.ts:78-263) or "draft" (page.tsx:15-154)
    hookVariant,    \* "effect" (part_001, NumberGrid.tsx:189-271) or "sync" (useLocalStorage.ts)
    mounted,        \* the component is mounted (a session is running)
    isInitialized,  \* the hook's isInitialized, returned as isLoaded
    history,        \* the hook's storedValue, called history by the page
    inputValue,     \* the page's inputValue state (text of the input field)
    storage,        \* localStorage item under "roulette-history": NoItem or a text
    top9Numbers,    \* the highlight set computed by the last render
    rendered,       \* the storedValue the last render's closures (setValue) hold
    alertShown,     \* the alert() the last handler raised, or NoAlert
    lastOp,         \* the handler that ran last and what it did (history variable)
    addedTo,        \* the History the last add was applied to, kept over the undo
                    \* that follows it (else empty)
    sessionWrites,  \* storage writes of this session: "none", "ok" or "failed"
    prevSession,    \* how the previous session ended (history variable)
    lastRead,       \* outcome of this session's storage read
    sessionLog,     \* the History this session loaded and the changes applied
                    \* to it since, oldest first (history variable)
    steps,          \* handler invocations so far
    writeFailures,  \* storage writes that failed so far
    sessions        \* sessions started so far

vars == <<pageVariant, hookVariant, mounted, isInitialized, history, inputValue,
          storage, top9Numbers, rendered, alertShown, lastOp, addedTo, sessionWrites,
          prevSession, lastRead, sessionLog, steps, writeFailures, sessions>>

----------------------------------------------------------------------------
(* Program constants *)

\* slice(0, 30) in the dashboard's handleAdd / handleAddNumber
MAX_HISTORY_DASHBOARD == 30

\* slice(0, 20) in the draft's handleAdd
MAX_HISTORY_DRAFT == 20

\* history.slice(0, 9): the highlight window
TOP_WINDOW == 9

\* the validation range: num < 0 || num > 36
MIN_NUMBER == 0

MAX_NUMBER == 36

(* Bounds of the model *)

\* handler invocations (typing, add, tap, undo, reset) in one run
MaxSteps == 3

\* sessions (mount ... close) in one run
MaxSessions == 2

\* storage writes that fail in one run
MaxWriteFailures == 1

----------------------------------------------------------------------------
(* Characters and numerals *)

Digits == <<"0", "1", "2", "3", "4", "5", "6", "7", "8", "9">>

IsDigit(c) == \E i \in 1..10 : Digits[i] = c

DigitValue(c) == (CHOOSE i \in 1..10 : Digits[i] = c) - 1

Min(a, b) == IF a < b THEN a ELSE b

RECURSIVE Pow10(_)
Pow10(n) == IF n <= 0 THEN 1 ELSE 10 * Pow10(n - 1)

\* Number.prototype.toString for an integer, as JSON.stringify writes it
RECURSIVE NaturalToText(_)
NaturalToText(n) ==
    IF n < 10 THEN <<Digits[n + 1]>>
    ELSE NaturalToText(n \div 10) \o <<Digits[(n % 10) + 1]>>

IntegerToText(n) == IF n < 0 THEN <<"-">> \o NaturalToText(-n) ELSE NaturalToText(n)

\* Array.prototype.slice(start, end) for 0 <= start, 0 <= end (0-based, end exclusive)
slice(arr, start, end) ==
    LET lo == Min(start, Len(arr))
        hi == Min(end, Len(arr))
    IN  IF hi <= lo THEN <<>> ELSE SubSeq(arr, lo + 1, hi)

----------------------------------------------------------------------------
(* JSON.stringify and JSON.parse on arrays of integers *)

RECURSIVE JoinNumbers(_)
JoinNumbers(arr) ==
    IF Len(arr) = 0 THEN <<>>
    ELSE IF Len(arr) = 1 THEN IntegerToText(arr[1])
    ELSE IntegerToText(arr[1]) \o <<",">> \o JoinNumbers(Tail(arr))

JSONstringify(arr) == <<"[">> \o JoinNumbers(arr) \o <<"]">>

\* the characters text[i..] that form a run of digits
RECURSIVE DigitRunEnd(_, _)
DigitRunEnd(text, i) ==
    IF i <= Len(text) /\ IsDigit(text[i]) THEN DigitRunEnd(text, i + 1) ELSE i

RECURSIVE DigitsValue(_, _, _)
DigitsValue(text, i, j) ==
    IF j <= i THEN 0
    ELSE 10 * DigitsValue(text, i, j - 1) + DigitValue(text[j - 1])

\* A JSON number at text[i]: "-"? ("0" | [1-9][0-9]*).  Result: ok, value, next.
JSONnumber(text, i) ==
    LET neg == i <= Len(text) /\ text[i] = "-"
        s   == IF neg THEN i + 1 ELSE i
        e   == DigitRunEnd(text, s)
    IN  IF e = s \/ (e > s + 1 /\ text[s] = "0")
        THEN [ok |-> FALSE, value |-> 0, next |-> i]
        ELSE [ok |-> TRUE,
              value |-> IF neg THEN 0 - DigitsValue(text, s, e) ELSE DigitsValue(text, s, e),
              next |-> e]

\* The elements of an array after "[": number ("," number)* "]"
\* (the number read and the values handed on are bound once, by CHOOSE over a
\* one-element set, so that each element is read a single time)
RECURSIVE JSONelements(_, _, _)
JSONelements(text, i, acc) ==
    CHOOSE result \in
        { IF ~n.ok THEN [ok |-> FALSE, value |-> <<>>]
          ELSE IF n.next > Len(text) THEN [ok |-> FALSE, value |-> <<>>]
          ELSE IF text[n.next] = "]"
               THEN [ok |-> n.next = Len(text), value |-> Append(acc, n.value)]
          ELSE IF text[n.next] = ","
               THEN JSONelements(text, n.next + 1, Append(acc, n.value))
          ELSE [ok |-> FALSE, value |-> <<>>]
          : n \in {JSONnumber(text, i)} } : TRUE

\* JSON.parse of a text that opens with "[" and is written over the characters
\* "[", "]", ",", "-" and digits (every text the model stores is one):
\* ok = FALSE stands for the SyntaxError it throws.
JSONparse(text) ==
    IF Len(text) < 2 \/ text[1] # "[" THEN [ok |-> FALSE, value |-> <<>>]
    ELSE IF text[2] = "]" THEN [ok |-> Len(text) = 2, value |-> <<>>]
    ELSE LET r == JSONelements(text, 2, <<>>)
         IN  IF r.ok THEN r ELSE [ok |-> FALSE, value |-> <<>>]

NullText == <<"n", "u", "l", "l">>

ObjectText == <<"{", "}">>

\* JSON.parse of a text that is no array: the kind of value it returns for
\* null, a number and {}, "error" for the SyntaxError it throws otherwise.
JSONparseOther(text) ==
    IF text = NullText THEN "null"
    ELSE IF text = ObjectText THEN "object"
    ELSE IF JSONnumber(text, 1).ok /\ JSONnumber(text, 1).next = Len(text) + 1 THEN "number"
    ELSE "error"

----------------------------------------------------------------------------
(* JavaScript numbers as the handlers see them: NaN, or the exact decimal  *)
(* m / 10^scale, normalised (scale = 0 or m not divisible by 10).           *)

NaN == [nan |-> TRUE, m |-> 0, scale |-> 0]

RECURSIVE Normalise(_, _)
Normalise(m, scale) ==
    IF scale > 0 /\ m % 10 = 0 THEN Normalise(m \div 10, scale - 1)
    ELSE IF scale < 0 THEN [nan |-> FALSE, m |-> m * Pow10(0 - scale), scale |-> 0]
    ELSE [nan |-> FALSE, m |-> m, scale |-> scale]

Negate(x) == [x EXCEPT !.m = 0 - x.m]

\* StrWhiteSpaceChar prefix skipped by parseInt and parseFloat
RECURSIVE SkipWhiteSpace(_, _)
SkipWhiteSpace(text, i) ==
    IF i <= Len(text) /\ text[i] = " " THEN SkipWhiteSpace(text, i + 1) ELSE i

IsSign(text, i) == i <= Len(text) /\ text[i] \in {"+", "-"}

\* parseInt(string) with the default radix, on texts without a "0x" prefix:
\* leading white space, a sign, then the longest run of digits; NaN if none.
parseInt(text) ==
    LET w == SkipWhiteSpace(text, 1)
        s == IF IsSign(text, w) THEN w + 1 ELSE w
        e == DigitRunEnd(text, s)
        v == [nan |-> FALSE, m |-> DigitsValue(text, s, e), scale |-> 0]
    IN  IF e = s THEN NaN
        ELSE IF IsSign(text, w) /\ text[w] = "-" THEN Negate(v) ELSE v

\* parseFloat(string), on texts without "Infinity": leading white space, a sign,
\* then the longest prefix that is a StrUnsignedDecimalLiteral
\* (digits [. digits] | . digits) [e [sign] digits]; NaN if there is none.
parseFloat(text) ==
    LET w    == SkipWhiteSpace(text, 1)
        s    == IF IsSign(text, w) THEN w + 1 ELSE w
        e1   == DigitRunEnd(text, s)
        dot  == e1 <= Len(text) /\ text[e1] = "."
        e2   == IF dot THEN DigitRunEnd(text, e1 + 1) ELSE e1
        \* "." is part of the literal only next to a digit
        useDot == dot /\ (e1 > s \/ e2 > e1 + 1)
        mEnd == IF useDot THEN e2 ELSE e1
        fracLen == IF useDot THEN e2 - (e1 + 1) ELSE 0
        hasE == mEnd <= Len(text) /\ text[mEnd] \in {"e", "E"}
        xs   == IF hasE /\ IsSign(text, mEnd + 1) THEN mEnd + 2 ELSE mEnd + 1
        xe   == IF hasE THEN DigitRunEnd(text, xs) ELSE xs
        useE == hasE /\ xe > xs
        xabs == IF useE THEN DigitsValue(text, xs, xe) ELSE 0
        exp  == IF useE /\ IsSign(text, mEnd + 1) /\ text[mEnd + 1] = "-"
                THEN 0 - xabs ELSE xabs
        mant == DigitsValue(text, s, e1) * Pow10(fracLen)
                + (IF useDot THEN DigitsValue(text, e1 + 1, e2) ELSE 0)
        v    == Normalise(mant, fracLen - exp)
    IN  IF e1 = s /\ ~useDot THEN NaN
        ELSE IF IsSign(text, w) /\ text[w] = "-" THEN Negate(v) ELSE v

isNaN(x) == x.nan

\* a !== b on numbers: NaN differs from everything, itself included
StrictNotEquals(a, b) == a.nan \/ b.nan \/ a.m # b.m \/ a.scale # b.scale

----------------------------------------------------------------------------
(* The hook: useLocalStorage("roulette-history", [])                        *)

\* localStorage.getItem result: null (present = FALSE) or the stored text
NoItem == [present |-> FALSE, text |-> <<>>]

Item(text) == [present |-> TRUE, text |-> text]

\* the caller-supplied initialValue: []
initialValue == <<>>

\* the load with setStoredValue(JSON.parse(item)) left out
LoadResultKeepsDefault(item, throws, current) ==
    IF throws THEN [value |-> current, read |-> "threw"]
    ELSE IF item.present /\ Len(item.text) > 0
         THEN [value |-> current,
               read |-> IF JSONparse(item.text).ok THEN "parsed" ELSE "unparseable"]
         ELSE [value |-> current, read |-> "absent"]

\* What the one-shot load leaves in storedValue, and how the read went:
\*   try { item = getItem(key); if (item) setStoredValue(JSON.parse(item)) } catch {}
\* `throws` is getItem raising (storage unavailable); current is the state before.
\* When JSON.parse returns a value that is no array (null, a number, {}),
\* setStoredValue takes it as it is: read names its kind, and value is left at
\* current because the render that follows throws (RenderThrows) and no
\* handler ever sees it.
LoadResult(item, throws, current) ==
    IF throws THEN [value |-> current, read |-> "threw"]
    ELSE IF item.present /\ Len(item.text) > 0
         THEN LET p == JSONparse(item.text)
                  o == JSONparseOther(item.text)
              IN  IF p.ok THEN [value |-> p.value, read |-> "parsed"]
                  ELSE IF o # "error" THEN [value |-> current, read |-> o]
                  ELSE [value |-> current, read |-> "unparseable"]
         ELSE [value |-> current, read |-> "absent"]

\* the render with a storedValue of that kind: history.slice(0, 9) is a
\* TypeError on null, a number or an object, and nothing catches it
RenderThrows(read) == read \in {"null", "number", "object"}

\* setValue with the setItem left out
setValueWithoutSetItem(stored, item, valueToStore, writeOk) ==
    [stored |-> valueToStore, item |-> item]

\* setValue persisting the storedValue of the current render instead of valueToStore
setValuePersistsStoredValue(stored, item, valueToStore, writeOk) ==
    [stored |-> valueToStore,
     item   |-> IF writeOk THEN Item(JSONstringify(stored)) ELSE item]

\* setValue with setItem ahead of setStoredValue: a throwing setItem skips the
\* state update
setValueStoresAfterSetItem(stored, item, valueToStore, writeOk) ==
    [stored |-> IF writeOk THEN valueToStore ELSE stored,
     item   |-> IF writeOk THEN Item(JSONstringify(valueToStore)) ELSE item]

\* setValue(value) called with a value (not an updater): setStoredValue(valueToStore),
\* then setItem(key, JSON.stringify(valueToStore)) inside the try; a throwing
\* setItem (writeOk = FALSE) is caught and leaves the item as it was.
\* Result: the new storedValue and the new item.
setValue(stored, item, valueToStore, writeOk) ==
    [stored |-> valueToStore,
     item   |-> IF writeOk THEN Item(JSONstringify(valueToStore)) ELSE item]

WriteOutcome(writeOk) == IF writeOk THEN "ok" ELSE "failed"

----------------------------------------------------------------------------
(* The page: MobileDashboard                                                *)

NoAlert == ""

RangeAlert == "Please enter a number between 0 and 36"

WholeAlert == "Please enter a whole number (no decimals)"

InvalidAlert == "Invalid number"

\* the bound each draft passes to slice
MAX_HISTORY == IF pageVariant = "dashboard" THEN MAX_HISTORY_DASHBOARD ELSE MAX_HISTORY_DRAFT

\* the draft has no undo button and no clickable grid
HasUndo == pageVariant = "dashboard"

HasGridClick == pageVariant = "dashboard"

\* NumberGrid({ top9Numbers }) takes the highlight set only: the onNumberClick
\* the dashboard passes is dropped, and its NumberBoxes get no onClick
NumberGridPassesOnClick == FALSE

\* the cells NumberGrid renders: 0, and 1..36
GridCells == MIN_NUMBER..MAX_NUMBER

\* [...history, num].slice(0, MAX): the new number pushed at the back
AppendAndTruncate(h, num) == slice(h \o <<num>>, 0, MAX_HISTORY)

\* [num, ...history] with the slice left out
PrependOnly(h, num) == <<num>> \o h

\* [num, ...history].slice(0, MAX)
PrependAndTruncate(h, num) == slice(<<num>> \o h, 0, MAX_HISTORY)

\* handleAdd's validation of inputValue: the alert it raises (NoAlert when it accepts)
\* and the number it adds.
ValidateInput(text) ==
    LET num == parseInt(text)
    IN  IF isNaN(num) \/ num.m < MIN_NUMBER \/ num.m > MAX_NUMBER
        THEN [alert |-> RangeAlert, num |-> 0]
        ELSE IF pageVariant = "dashboard" /\ StrictNotEquals(parseFloat(text), num)
        THEN [alert |-> WholeAlert, num |-> 0]
        ELSE [alert |-> NoAlert, num |-> num.m]

\* handleAdd with setInputValue("") ahead of the validation
InputAfterAddAlwaysCleared(text, accepted) == <<>>

\* the input text handleAdd leaves: setInputValue("") stands after the
\* validation's returns, so only an accepted add clears it
InputAfterAdd(text, accepted) == IF accepted THEN <<>> ELSE text

\* handleAddNumber's validation without the upper bound
ValidateTapLowerOnly(num) ==
    IF num < MIN_NUMBER THEN InvalidAlert ELSE NoAlert

\* handleAddNumber's validation
ValidateTap(num) ==
    IF num < MIN_NUMBER \/ num > MAX_NUMBER THEN InvalidAlert ELSE NoAlert

\* handleUndo with its guard left out
CanUndoAlways(h) == TRUE

\* handleUndo's guard: history.length > 0
CanUndo(h) == Len(h) > 0

\* history.slice(0, -1): the oldest entry dropped instead of the newest
DropOldest(h) == slice(h, 0, Len(h) - 1)

\* history.slice(1)
DropNewest(h) == slice(h, 1, Len(h))

\* new Set(history): the window left out
Top9OfAll(h) == {h[i] : i \in 1..Len(h)}

\* new Set(history.slice(0, 9))
Top9(h) == LET window == slice(h, 0, TOP_WINDOW)
           IN  {window[i] : i \in 1..Len(window)}

\* NumberBox isActive={top9Numbers.has(n)}
isActive(n) == n \in top9Numbers

\* Header isUndoDisabled={history.length === 0}
isUndoDisabled == Len(history) = 0

\* a hook that reports isLoaded: true from the first render on
isLoadedFromFirstRender == TRUE

isLoaded == isInitialized

\* the page with its loading guard left out
ReadyWithoutLoadingGuard == mounted

\* the page below the loading guard: the input, the buttons and the grid exist
Ready == mounted /\ isLoaded

----------------------------------------------------------------------------
(* Inputs *)

\* texts the input field can hold
TextInputs ==
    { <<"7">>, <<"3", ".", "5">> }

\* texts for the validator: what a number field can hold, and "abc"
ValidatorTexts ==
    { <<"0">>, <<"7">>, <<"3", "6">>, <<"3", "7">>, <<"-", "1">>,
      <<"3", ".", "5">>, <<"1", "2", ".", "5">>, <<"3", "7", ".", "5">>,
      <<"3", ".", "0">>, <<"1", "e", "1">>, <<"a", "b", "c">> }

\* numbers handleAddNumber is called with: grid cells and the two neighbours of
\* the range, which its own check rejects
TapValues == {-1, 5, 12, 37}

\* a History the program can have saved in an earlier session
SeedHistory(n) == [i \in 1..n |-> (i * 5) % (MAX_NUMBER + 1)]

SeedLengths(max) == {max - 1}

\* an item cut short: not parseable
CorruptText == <<"[", "5", ",">>

\* items that parse, but not to an array
MalformedItems == {Item(NullText), Item(<<"5">>), Item(ObjectText)}

InitialItems(max) ==
    {NoItem, Item(CorruptText)} \cup {Item(JSONstringify(SeedHistory(n))) : n \in SeedLengths(max)}

----------------------------------------------------------------------------
(* State machine *)

NoOp == [name |-> "none", accepted |-> FALSE, value |-> 0, write |-> "none",
         follows |-> "other"]

\* the handler that ran last was an add that went through
AfterAdd == lastOp.accepted /\ lastOp.name \in {"handleAdd", "handleAddNumber"}

Op(name, accepted, value, write) ==
    [name |-> name, accepted |-> accepted, value |-> value, write |-> write,
     follows |-> IF AfterAdd THEN "add" ELSE "other"]

NoSession == [ended |-> FALSE, history |-> <<>>, writes |-> "none"]

NoLog == [loaded |-> <<>>, applied |-> <<>>]

\* the log after the step that leaves lastOp': a start or a load opens a new
\* log; an add, undo or reset that went through, and a click on a grid cell,
\* is added to it
SessionLogNext ==
    IF lastOp'.name \in {"mount", "load", "renderError", "close"}
    THEN [loaded |-> history', applied |-> <<>>]
    ELSE IF lastOp'.accepted \/ lastOp'.name = "clickNumberBox"
         THEN [sessionLog EXCEPT !.applied =
                  Append(@, [name |-> lastOp'.name, value |-> lastOp'.value])]
         ELSE sessionLog

\* whether a setItem may succeed / fail at this point
WriteOutcomes == {TRUE} \cup (IF writeFailures < MaxWriteFailures THEN {FALSE} ELSE {})

FailuresAfter(writeOk) == IF writeOk THEN writeFailures ELSE writeFailures + 1

SessionWritesAfter(writeOk) ==
    IF sessionWrites = "failed" \/ ~writeOk THEN "failed" ELSE "ok"

\* the page and hook drafts that go together
Builds == {<<"dashboard", "sync">>, <<"dashboard", "effect">>, <<"draft", "effect">>}

Init ==
    /\ \E b \in Builds : pageVariant = b[1] /\ hookVariant = b[2]
    /\ storage \in InitialItems(IF pageVariant = "dashboard"
                                THEN MAX_HISTORY_DASHBOARD ELSE MAX_HISTORY_DRAFT)
    /\ mounted = FALSE
    /\ isInitialized = FALSE
    /\ history = initialValue
    /\ inputValue = <<>>
    /\ top9Numbers = {}
    /\ rendered = initialValue
    /\ alertShown = NoAlert
    /\ lastOp = NoOp
    /\ addedTo = <<>>
    /\ sessionWrites = "none"
    /\ prevSession = NoSession
    /\ lastRead = "none"
    /\ sessionLog = NoLog
    /\ steps = 0
    /\ writeFailures = 0
    /\ sessions = 0

\* Init with any text under the key: also one this program did not write
InitStored ==
    /\ \E b \in Builds : pageVariant = b[1] /\ hookVariant = b[2]
    /\ storage \in MalformedItems \cup {NoItem, Item(CorruptText)}
    /\ mounted = FALSE
    /\ isInitialized = FALSE
    /\ history = initialValue
    /\ inputValue = <<>>
    /\ top9Numbers = {}
    /\ rendered = initialValue
    /\ alertShown = NoAlert
    /\ lastOp = NoOp
    /\ addedTo = <<>>
    /\ sessionWrites = "none"
    /\ prevSession = NoSession
    /\ lastRead = "none"
    /\ sessionLog = NoLog
    /\ steps = 0
    /\ writeFailures = 0
    /\ sessions = 0

\* First render of a session.  The sync hook reads storage in the useState
\* initializer and is loaded at once; the effect hook starts from initialValue
\* with isInitialized false and shows the loading screen.
Mount ==
    /\ ~mounted
    /\ sessions < MaxSessions
    /\ sessions' = sessions + 1
    /\ inputValue' = <<>>
    /\ alertShown' = NoAlert
    /\ addedTo' = <<>>
    /\ sessionWrites' = "none"
    /\ IF hookVariant = "sync"
       THEN \E throws \in BOOLEAN :
             \E r \in {LoadResult(storage, throws, initialValue)} :
                   IF RenderThrows(r.read)
                   THEN \* the first render throws: React unmounts the page
                        /\ mounted' = FALSE
                        /\ history' = initialValue
                        /\ lastRead' = r.read
                        /\ isInitialized' = FALSE
                        /\ lastOp' = Op("renderError", FALSE, 0, "none")
                   ELSE /\ mounted' = TRUE
                        /\ history' = r.value
                        /\ lastRead' = r.read
                        /\ isInitialized' = TRUE
                        /\ lastOp' = Op("mount", FALSE, 0, "none")
       ELSE /\ mounted' = TRUE
            /\ history' = initialValue
            /\ lastRead' = "none"
            /\ isInitialized' = FALSE
            /\ lastOp' = Op("mount", FALSE, 0, "none")
    /\ top9Numbers' = Top9(history')
    /\ rendered' = history'
    /\ UNCHANGED <<pageVariant, hookVariant, storage, prevSession, steps, writeFailures>>
    /\ sessionLog' = SessionLogNext

\* the effect with setIsInitialized(true) moved into the try: a read that
\* throws, or a text that does not parse, skips it
LoadEffectInitializesInTry ==
    /\ mounted
    /\ hookVariant = "effect"
    /\ ~isInitialized
    /\ lastRead = "none"
    /\ \E throws \in BOOLEAN :
        \E r \in {LoadResult(storage, throws, history)} :
              /\ mounted' = ~RenderThrows(r.read)
              /\ history' = IF RenderThrows(r.read) THEN initialValue ELSE r.value
              /\ lastRead' = r.read
              /\ isInitialized' = (r.read \in {"parsed", "absent"})
              /\ lastOp' = Op("load", FALSE, 0, "none")
    /\ top9Numbers' = Top9(history')
    /\ rendered' = history'
    /\ UNCHANGED <<pageVariant, hookVariant, inputValue, storage, alertShown,
                   addedTo, sessionWrites, prevSession, steps, writeFailures, sessions>>
    /\ sessionLog' = SessionLogNext

\* The effect hook's useEffect, run once after the first render
LoadEffect ==
    /\ mounted
    /\ hookVariant = "effect"
    /\ ~isInitialized
    /\ \E throws \in BOOLEAN :
        \E r \in {LoadResult(storage, throws, history)} :
              IF RenderThrows(r.read)
              THEN \* the render after the effect throws: React unmounts the page
                   /\ mounted' = FALSE
                   /\ history' = initialValue
                   /\ lastRead' = r.read
                   /\ isInitialized' = FALSE
                   /\ lastOp' = Op("renderError", FALSE, 0, "none")
              ELSE /\ mounted' = TRUE
                   /\ history' = r.value
                   /\ lastRead' = r.read
                   /\ isInitialized' = TRUE
                   /\ lastOp' = Op("load", FALSE, 0, "none")
    /\ top9Numbers' = Top9(history')
    /\ rendered' = history'
    /\ UNCHANGED <<pageVariant, hookVariant, inputValue, storage, alertShown,
                   addedTo, sessionWrites, prevSession, steps, writeFailures, sessions>>
    /\ sessionLog' = SessionLogNext

\* onChange of the input field: setInputValue(e.target.value)
SetInputValue(text) ==
    /\ Ready
    /\ steps < MaxSteps
    /\ text # inputValue
    /\ inputValue' = text
    /\ steps' = steps + 1
    /\ alertShown' = NoAlert
    /\ lastOp' = Op("setInputValue", FALSE, 0, "none")
    /\ addedTo' = <<>>
    /\ UNCHANGED <<pageVariant, hookVariant, mounted, isInitialized, history, storage,
                   top9Numbers, rendered, sessionWrites, writeFailures, prevSession, lastRead, sessions>>
    /\ sessionLog' = SessionLogNext

\* handleAdd: the add button or the Enter key
HandleAdd ==
    /\ Ready
    /\ steps < MaxSteps
    /\ steps' = steps + 1
    /\ \E v \in {ValidateInput(inputValue)} :
           IF v.alert # NoAlert
           THEN /\ alertShown' = v.alert
                /\ lastOp' = Op("handleAdd", FALSE, 0, "none")
                /\ addedTo' = <<>>
                /\ inputValue' = InputAfterAdd(inputValue, FALSE)
                /\ UNCHANGED <<history, storage, top9Numbers, rendered, sessionWrites, writeFailures>>
           ELSE \E writeOk \in WriteOutcomes :
                 \E set \in {setValue(history, storage,
                                       PrependAndTruncate(history, v.num), writeOk)} :
                       /\ history' = set.stored
                       /\ storage' = set.item
                       /\ inputValue' = InputAfterAdd(inputValue, TRUE)
                       /\ alertShown' = NoAlert
                       /\ top9Numbers' = Top9(history')
                       /\ rendered' = history'
                       /\ lastOp' = Op("handleAdd", TRUE, v.num, WriteOutcome(writeOk))
                       /\ addedTo' = history
                       /\ sessionWrites' = SessionWritesAfter(writeOk)
                       /\ writeFailures' = FailuresAfter(writeOk)
    /\ UNCHANGED <<pageVariant, hookVariant, mounted, isInitialized, prevSession,
                   lastRead, sessions>>
    /\ sessionLog' = SessionLogNext

\* handleAddNumber(num): the handler the dashboard hands to the grid as onNumberClick
HandleAddNumber(num) ==
    /\ Ready
    /\ HasGridClick
    /\ steps < MaxSteps
    /\ steps' = steps + 1
    /\ IF ValidateTap(num) # NoAlert
       THEN /\ alertShown' = ValidateTap(num)
            /\ lastOp' = Op("handleAddNumber", FALSE, 0, "none")
            /\ addedTo' = <<>>
            /\ UNCHANGED <<history, storage, top9Numbers, rendered, sessionWrites, writeFailures>>
       ELSE \E writeOk \in WriteOutcomes :
             \E set \in {setValue(history, storage,
                                   PrependAndTruncate(history, num), writeOk)} :
                   /\ history' = set.stored
                   /\ storage' = set.item
                   /\ alertShown' = NoAlert
                   /\ top9Numbers' = Top9(history')
                   /\ rendered' = history'
                   /\ lastOp' = Op("handleAddNumber", TRUE, num, WriteOutcome(writeOk))
                   /\ addedTo' = history
                   /\ sessionWrites' = SessionWritesAfter(writeOk)
                       /\ writeFailures' = FailuresAfter(writeOk)
    /\ UNCHANGED <<pageVariant, hookVariant, mounted, isInitialized, inputValue,
                   prevSession, lastRead, sessions>>
    /\ sessionLog' = SessionLogNext

\* handleUndo: the undo button's onClick
HandleUndo ==
    /\ Ready
    /\ HasUndo
    /\ steps < MaxSteps
    /\ steps' = steps + 1
    /\ alertShown' = NoAlert
    /\ addedTo' = IF AfterAdd THEN addedTo ELSE <<>>
    /\ IF CanUndo(history)
       THEN \E writeOk \in WriteOutcomes :
             \E set \in {setValue(history, storage, DropNewest(history), writeOk)} :
                   /\ history' = set.stored
                   /\ storage' = set.item
                   /\ top9Numbers' = Top9(history')
                   /\ rendered' = history'
                   /\ lastOp' = Op("handleUndo", TRUE, 0, WriteOutcome(writeOk))
                   /\ sessionWrites' = SessionWritesAfter(writeOk)
                       /\ writeFailures' = FailuresAfter(writeOk)
       ELSE /\ lastOp' = Op("handleUndo", FALSE, 0, "none")
            /\ UNCHANGED <<history, storage, top9Numbers, rendered, sessionWrites, writeFailures>>
    /\ UNCHANGED <<pageVariant, hookVariant, mounted, isInitialized, inputValue,
                   prevSession, lastRead, sessions>>
    /\ sessionLog' = SessionLogNext

\* the reset button without its guard: setHistory([]) whatever confirm() returns
ResetIgnoringConfirm ==
    /\ Ready
    /\ steps < MaxSteps
    /\ steps' = steps + 1
    /\ alertShown' = NoAlert
    /\ addedTo' = <<>>
    /\ \E confirmed \in BOOLEAN :
          \E writeOk \in WriteOutcomes :
            \E set \in {setValue(history, storage, <<>>, writeOk)} :
              /\ history' = set.stored
              /\ storage' = set.item
              /\ top9Numbers' = Top9(history')
              /\ rendered' = history'
              /\ lastOp' = Op("reset", confirmed, 0, WriteOutcome(writeOk))
              /\ sessionWrites' = SessionWritesAfter(writeOk)
              /\ writeFailures' = FailuresAfter(writeOk)
    /\ UNCHANGED <<pageVariant, hookVariant, mounted, isInitialized, inputValue,
                   prevSession, lastRead, sessions>>
    /\ sessionLog' = SessionLogNext

\* the reset button: if (confirm(...)) setHistory([])
Reset ==
    /\ Ready
    /\ steps < MaxSteps
    /\ steps' = steps + 1
    /\ alertShown' = NoAlert
    /\ addedTo' = <<>>
    /\ \E confirmed \in BOOLEAN :
          IF confirmed
          THEN \E writeOk \in WriteOutcomes :
                \E set \in {setValue(history, storage, <<>>, writeOk)} :
                  /\ history' = set.stored
                  /\ storage' = set.item
                  /\ top9Numbers' = Top9(history')
                  /\ rendered' = history'
                  /\ lastOp' = Op("reset", TRUE, 0, WriteOutcome(writeOk))
                  /\ sessionWrites' = SessionWritesAfter(writeOk)
                       /\ writeFailures' = FailuresAfter(writeOk)
          ELSE /\ lastOp' = Op("reset", FALSE, 0, "none")
               /\ UNCHANGED <<history, storage, top9Numbers, rendered, sessionWrites, writeFailures>>
    /\ UNCHANGED <<pageVariant, hookVariant, mounted, isInitialized, inputValue,
                   prevSession, lastRead, sessions>>
    /\ sessionLog' = SessionLogNext

\* The browser is closed: the component state is gone, the item stays
Close ==
    /\ mounted
    /\ mounted' = FALSE
    /\ isInitialized' = FALSE
    /\ prevSession' = [ended |-> TRUE, history |-> history, writes |-> sessionWrites]
    /\ history' = initialValue
    /\ inputValue' = <<>>
    /\ top9Numbers' = {}
    /\ rendered' = initialValue
    /\ alertShown' = NoAlert
    /\ lastOp' = Op("close", FALSE, 0, "none")
    /\ addedTo' = <<>>
    /\ sessionWrites' = "none"
    /\ lastRead' = "none"
    /\ UNCHANGED <<pageVariant, hookVariant, storage, steps, writeFailures, sessions>>
    /\ sessionLog' = SessionLogNext

Next ==
    \/ Mount
    \/ LoadEffect
    \/ \E text \in TextInputs : SetInputValue(text)
    \/ HandleAdd
    \/ \E num \in TapValues : HandleAddNumber(num)
    \/ HandleUndo
    \/ Reset
    \/ Close

Spec == Init /\ [][Next]_vars

\* One session from process start, never closed.  The process does start, and
\* React runs the effect of a committed render: both happen if left enabled.
NextLive ==
    \/ Mount
    \/ LoadEffect
    \/ \E text \in TextInputs : SetInputValue(text)
    \/ HandleAdd
    \/ \E num \in TapValues : HandleAddNumber(num)
    \/ HandleUndo
    \/ Reset

SpecLive == Init /\ [][NextLive]_vars /\ WF_vars(Mount) /\ WF_vars(LoadEffect)

\* Text entry alone, over a wider set of texts
NextInput ==
    \/ Mount
    \/ LoadEffect
    \/ \E text \in ValidatorTexts : SetInputValue(text)
    \/ HandleAdd

SpecInput == Init /\ [][NextInput]_vars

SpecStored == InitStored /\ [][Next]_vars

\* updaters a consumer can hand to setValue: prev => [n, ...prev].slice(0, MAX)
UpdaterValues == {5, 12}

ApplyUpdater(n, val) == PrependAndTruncate(val, n)

\* setValue(updater) called from the closure of the last render:
\*   valueToStore = value instanceof Function ? value(storedValue) : value
\* where storedValue is the const of that render; no re-render happens here.
SetValueUpdater(n) ==
    /\ Ready
    /\ steps < MaxSteps
    /\ steps' = steps + 1
    /\ alertShown' = NoAlert
    /\ addedTo' = <<>>
    /\ \E writeOk \in WriteOutcomes :
        \E set \in {setValue(rendered, storage, ApplyUpdater(n, rendered), writeOk)} :
              /\ history' = set.stored
              /\ storage' = set.item
              /\ lastOp' = Op("setValue", TRUE, n, WriteOutcome(writeOk))
              /\ sessionWrites' = SessionWritesAfter(writeOk)
              /\ writeFailures' = FailuresAfter(writeOk)
    /\ UNCHANGED <<pageVariant, hookVariant, mounted, isInitialized, inputValue,
                   top9Numbers, rendered, prevSession, lastRead, sessions>>
    /\ sessionLog' = SessionLogNext

\* React renders the component again after the state changed
Render ==
    /\ mounted
    /\ rendered # history
    /\ rendered' = history
    /\ top9Numbers' = Top9(history)
    /\ lastOp' = Op("render", FALSE, 0, "none")
    /\ UNCHANGED <<pageVariant, hookVariant, mounted, isInitialized, history, inputValue,
                   storage, alertShown, addedTo, sessionWrites, prevSession, lastRead,
                   steps, writeFailures, sessions>>
    /\ sessionLog' = SessionLogNext

\* The hook on its own: a consumer calling setValue with updaters
NextHook ==
    \/ Mount
    \/ LoadEffect
    \/ \E n \in UpdaterValues : SetValueUpdater(n)
    \/ Render
    \/ Close

SpecHook == Init /\ [][NextHook]_vars

\* A click on the grid cell n: NumberBox's onClick={() => onClick?.(number)},
\* with the onClick NumberGrid gave it.  Without one the click calls nothing.
ClickNumberBox(n) ==
    IF NumberGridPassesOnClick /\ HasGridClick
    THEN HandleAddNumber(n)
    ELSE /\ Ready
         /\ steps < MaxSteps
         /\ steps' = steps + 1
         /\ lastOp' = Op("clickNumberBox", FALSE, n, "none")
         /\ addedTo' = <<>>
         /\ UNCHANGED <<pageVariant, hookVariant, mounted, isInitialized, history,
                        inputValue, storage, top9Numbers, rendered, alertShown, sessionWrites,
                        prevSession, lastRead, writeFailures, sessions>>
         /\ sessionLog' = SessionLogNext

\* The grid as the user reaches it: clicks on its cells, between mount and close
NextGrid ==
    \/ Mount
    \/ LoadEffect
    \/ \E n \in GridCells : ClickNumberBox(n)
    \/ Close

SpecGrid == Init /\ [][NextGrid]_vars

----------------------------------------------------------------------------
(* Properties *)

IsAdd(op) == op.accepted /\ op.name \in {"handleAdd", "handleAddNumber"}

\* a handler changed History: an accepted add, an undo of a non-empty History,
\* a confirmed reset
IsMutation(op) ==
    op.accepted /\ op.name \in {"handleAdd", "handleAddNumber", "handleUndo", "reset"}

EmptyArrayText == <<"[", "]">>

\* C1: an accepted add of v to History h gives v followed by h when
\* len(h) < MAX_HISTORY (length len(h)+1), and v followed by the first
\* MAX_HISTORY-1 entries of h when len(h) = MAX_HISTORY (length MAX_HISTORY).
C1_AddPrependsAndTruncates ==
    [][IsAdd(lastOp') =>
          LET h == history
              v == lastOp'.value
          IN  /\ Len(h) <= MAX_HISTORY
              /\ v \in MIN_NUMBER..MAX_NUMBER
              /\ history'[1] = v
              /\ Len(h) < MAX_HISTORY =>
                    /\ Len(history') = Len(h) + 1
                    /\ \A i \in 1..Len(h) : history'[i + 1] = h[i]
              /\ Len(h) = MAX_HISTORY =>
                    /\ Len(history') = MAX_HISTORY
                    /\ \A i \in 1..(MAX_HISTORY - 1) : history'[i + 1] = h[i]
      ]_vars

\* an add to a full History happened: the oldest entry was dropped
C1_Witness ==
    /\ IsAdd(lastOp)
    /\ Len(addedTo) = MAX_HISTORY
    /\ Len(history) = MAX_HISTORY
    /\ history[MAX_HISTORY] = addedTo[MAX_HISTORY - 1]

\* C2: every add, undo or reset that changes History attempts a storage write,
\* and when the write succeeds the item is the JSON text of the new History
\* (it parses back to it); History [5,12,5] is stored as "[5,12,5]".
C2_MutationIsPersisted ==
    [][IsMutation(lastOp') =>
          /\ lastOp'.write \in {"ok", "failed"}
          /\ lastOp'.write = "ok" =>
                /\ storage'.present
                /\ storage'.text = JSONstringify(history')
                /\ JSONparse(storage'.text) = [ok |-> TRUE, value |-> history']
                /\ history' = <<5, 12, 5>> =>
                      storage'.text = <<"[", "5", ",", "1", "2", ",", "5", "]">>
      ]_vars

\* from the empty History, add(5), add(12), add(5), every write succeeding
C2_Witness ==
    /\ history = <<5, 12, 5>>
    /\ storage = Item(<<"[", "5", ",", "1", "2", ",", "5", "]">>)
    /\ lastOp.name = "handleAddNumber"
    /\ lastOp.write = "ok"
    /\ addedTo = <<12, 5>>
    /\ steps = 3
    /\ lastRead \in {"absent", "threw", "unparseable"}

\* a session that has loaded and has not changed History yet, after a session
\* that changed History and whose writes all succeeded
FreshAfterSavedSession ==
    /\ Ready
    /\ sessionWrites = "none"
    /\ prevSession.ended
    /\ prevSession.writes = "ok"

C4_LengthAtMostMax == Len(history) <= MAX_HISTORY

\* a History restored from storage, filled up, and added to once more
C4_Witness ==
    /\ lastRead = "parsed"
    /\ IsAdd(lastOp)
    /\ Len(addedTo) = MAX_HISTORY
    /\ Len(history) = MAX_HISTORY

\* C5: every entry of History is an integer in [0, 36].
C5_EntriesInRange ==
    \A i \in 1..Len(history) : history[i] \in MIN_NUMBER..MAX_NUMBER

\* a restored History with an entry added from the input field
C5_Witness ==
    /\ lastRead = "parsed"
    /\ lastOp.name = "handleAdd"
    /\ lastOp.accepted
    /\ Len(history) > 1

\* C6: an undo takes away exactly the newest entry; right after an add to h it
\* gives back h when len(h) < MAX_HISTORY, and h without its oldest entry when
\* len(h) = MAX_HISTORY.
C6_UndoAfterAdd ==
    /\ [][(lastOp'.name = "handleUndo" /\ Len(history) > 0) =>
             /\ Len(history') = Len(history) - 1
             /\ \A i \in 1..Len(history') : history'[i] = history[i + 1]
         ]_vars
    /\ [][(lastOp'.name = "handleUndo" /\ IsAdd(lastOp)) =>
             history' = IF Len(addedTo) < MAX_HISTORY THEN addedTo
                        ELSE SubSeq(addedTo, 1, MAX_HISTORY - 1)
         ]_vars

\* an add that filled History, undone
C6_Witness ==
    /\ lastOp.name = "handleUndo"
    /\ lastOp.follows = "add"
    /\ Len(addedTo) = MAX_HISTORY - 1
    /\ history = addedTo

\* C7 as stated: undo on the empty History leaves it empty and reports to the
\* caller that there is nothing to undo.
C7_UndoOnEmptySignals ==
    [][(lastOp'.name = "handleUndo" /\ Len(history) = 0) =>
          /\ history' = <<>>
          /\ alertShown' # NoAlert
      ]_vars

\* C7 amended: undo on the empty History is a silent no-op: History stays
\* empty, nothing is written, no alert is raised, the input text is kept; the
\* undo button is rendered disabled.
C7_UndoOnEmptyIsSilentNoOp ==
    [][(lastOp'.name = "handleUndo" /\ Len(history) = 0) =>
          /\ history' = <<>>
          /\ storage' = storage
          /\ lastOp'.write = "none"
          /\ alertShown' = NoAlert
          /\ inputValue' = inputValue
          /\ isUndoDisabled'
      ]_vars

C7_Witness ==
    /\ lastOp.name = "handleUndo"
    /\ ~lastOp.accepted
    /\ Len(history) = 0
    /\ ~storage.present

\* C8 as stated: a confirmed reset leaves the empty History and the item "[]".
C8_ResetClearsHistoryAndItem ==
    [][(lastOp'.name = "reset" /\ lastOp'.accepted) =>
          /\ history' = <<>>
          /\ storage' = Item(EmptyArrayText)
      ]_vars

\* C8 amended: a confirmed reset leaves the empty History; the item is "[]"
\* when the storage write succeeds and is left as it was when the write fails.
C8_ResetClearsHistoryAndWritesEmpty ==
    [][(lastOp'.name = "reset" /\ lastOp'.accepted) =>
          /\ history' = <<>>
          /\ top9Numbers' = {}
          /\ lastOp'.write = "ok" => storage' = Item(EmptyArrayText)
          /\ lastOp'.write = "failed" => storage' = storage
      ]_vars

\* a full restored History, reset
C8_Witness ==
    /\ lastOp.name = "reset"
    /\ lastOp.accepted
    /\ lastOp.write = "ok"
    /\ lastRead = "parsed"
    /\ history = <<>>
    /\ storage = Item(EmptyArrayText)

\* C9: the highlight set holds exactly the values at the first min(9, len)
\* places of History, so at most min(9, len) of them; cell n is active iff n
\* is at one of those places.
C9_Top9IsFirstNine ==
    LET k == Min(TOP_WINDOW, Len(history))
    IN  /\ top9Numbers = {history[i] : i \in 1..k}
        /\ Cardinality(top9Numbers) <= k
        /\ \A n \in MIN_NUMBER..MAX_NUMBER :
              isActive(n) <=> \E i \in 1..Len(history) : i <= TOP_WINDOW /\ history[i] = n

\* a History longer than the window after an add: nine cells lit, the tenth
\* entry's cell dark
C9_Witness ==
    /\ IsAdd(lastOp)
    /\ Len(history) > TOP_WINDOW
    /\ Cardinality(top9Numbers) = TOP_WINDOW
    /\ ~isActive(history[TOP_WINDOW + 1])

\* the whole numbers the validator texts denote
DenotedWholeNumbers ==
    { <<<<"0">>, 0>>, <<<<"7">>, 7>>, <<<<"3", "6">>, 36>>, <<<<"3", "7">>, 37>>,
      <<<<"-", "1">>, -1>>, <<<<"3", ".", "0">>, 3>>, <<<<"1", "e", "1">>, 10>> }

DenotesWholeInRange(text, n) ==
    <<text, n>> \in DenotedWholeNumbers /\ n \in MIN_NUMBER..MAX_NUMBER

\* C10: handleAdd adds a value iff the text denotes a whole number n in
\* [0, 36], and the value it adds is n.
C10_SubmitAcceptsExactlyWholeNumbers ==
    [][lastOp'.name = "handleAdd" =>
          /\ lastOp'.accepted <=>
                \E n \in MIN_NUMBER..MAX_NUMBER : DenotesWholeInRange(inputValue, n)
          /\ lastOp'.accepted => DenotesWholeInRange(inputValue, lastOp'.value)
      ]_vars

\* what the rejected validator texts are: not a number, a number with a
\* non-zero fractional part (whatever its magnitude), a whole number out of range
RejectionClasses ==
    { <<<<"a", "b", "c">>, "NotANumber">>,
      <<<<"3", ".", "5">>, "NotAWholeNumber">>,
      <<<<"1", "2", ".", "5">>, "NotAWholeNumber">>,
      <<<<"3", "7", ".", "5">>, "NotAWholeNumber">>,
      <<<<"3", "7">>, "OutOfRange">>,
      <<<<"-", "1">>, "OutOfRange">> }

RejectionClass(text) == CHOOSE c \in {"NotANumber", "NotAWholeNumber", "OutOfRange"} :
                            <<text, c>> \in RejectionClasses

IsRejectedText(text) == \E c \in {"NotANumber", "NotAWholeNumber", "OutOfRange"} :
                            <<text, c>> \in RejectionClasses

\* C11: a rejected text is reported with the reason of the first failing rule
\* in the order NotANumber, NotAWholeNumber, OutOfRange: a text with a
\* fractional part gets the whole-number report whatever its magnitude, a whole
\* number out of range gets the range report, a text that is no number gets a
\* report distinct from both.
C11_RejectionReasonInOrder ==
    [][(lastOp'.name = "handleAdd" /\ IsRejectedText(inputValue)) =>
          /\ ~lastOp'.accepted
          /\ alertShown' # NoAlert
          /\ RejectionClass(inputValue) = "NotAWholeNumber" => alertShown' = WholeAlert
          /\ RejectionClass(inputValue) = "OutOfRange" => alertShown' = RangeAlert
          /\ RejectionClass(inputValue) = "NotANumber" =>
                alertShown' \notin {WholeAlert, RangeAlert}
      ]_vars

\* C12: in the Ready state a click on the grid cell of any v in [0, 36]
\* performs add(v): History becomes v followed by the old History, cut to
\* MAX_HISTORY, a storage write is attempted, and when it succeeds the item is
\* the JSON text of the new History.
C12_TapGridValueAdds ==
    [][\A v \in GridCells :
          (Ready /\ ClickNumberBox(v)) =>
              /\ history' = PrependAndTruncate(history, v)
              /\ lastOp'.write \in {"ok", "failed"}
              /\ lastOp'.write = "ok" => storage' = Item(JSONstringify(history'))
      ]_vars

\* what the handler named by op makes of History h
ResultOf(op, h) ==
    IF op.name \in {"handleAdd", "handleAddNumber"} THEN PrependAndTruncate(h, op.value)
    ELSE IF op.name = "handleUndo" THEN DropNewest(h)
    ELSE <<>>

\* C13: a failed storage write of an add, undo or reset is swallowed: History
\* still becomes the result of the operation, the item is left as it was, the
\* handler runs to its end (handleAdd clears the input text) and no alert is
\* raised; every later add, undo or reset of the session works on the
\* in-memory History.
C13_SaveIsBestEffort ==
    [][(IsMutation(lastOp') /\ (lastOp'.write = "failed" \/ sessionWrites = "failed")) =>
          /\ history' = ResultOf(lastOp', history)
          /\ top9Numbers' = Top9(history')
          /\ rendered' = history'
          /\ Ready'
          /\ alertShown' = NoAlert
          /\ lastOp'.name = "handleAdd" => inputValue' = <<>>
          /\ lastOp'.write = "failed" => storage' = storage
          /\ lastOp'.write = "ok" => storage' = Item(JSONstringify(history'))
      ]_vars

\* two adds from the empty History, the first one's write failed: both are in
\* History and the second write stored both
C13_Witness ==
    /\ sessionWrites = "failed"
    /\ lastRead = "absent"
    /\ steps = 2
    /\ IsAdd(lastOp)
    /\ lastOp.follows = "add"
    /\ lastOp.write = "ok"
    /\ Len(history) = 2
    /\ storage = Item(JSONstringify(history))

\* the item is absent, or its text is not the JSON text of an array of integers
NoHistoryStored(item) == ~item.present \/ ~JSONparse(item.text).ok

\* C14: when the text under the key is absent, not parseable or otherwise
\* malformed, the load behaves as for absent data: the session starts with
\* the default empty History, and neither the load nor a later render, add,
\* undo or reset crashes.
C14_MalformedItemLoadsDefault ==
    [][(NoHistoryStored(storage) /\ lastOp'.name \in {"mount", "load", "renderError"}) =>
          /\ lastOp'.name # "renderError"
          /\ mounted'
          /\ isLoaded' => history' = initialValue
      ]_vars

\* C15: setValue(f) sets state and stored value to f applied to the current
\* value, so a second updater call from the same render (no render in
\* between) leaves state and storage at g(f(s)).
C15_UpdatersCompose ==
    [][(lastOp.name = "setValue" /\ lastOp'.name = "setValue") =>
          /\ history' = ApplyUpdater(lastOp'.value, history)
          /\ lastOp'.write = "ok" => storage' = Item(JSONstringify(history'))
      ]_vars

UserHandlers == {"setInputValue", "handleAdd", "handleAddNumber", "handleUndo", "reset"}

\* C16: add, undo and reset take effect only in the Ready state: while the
\* load has not completed no handler runs, the item and the input text do not
\* change, and History changes by the load alone.
C16_HandlersOnlyWhenReady ==
    [][/\ lastOp'.name \in UserHandlers => (mounted /\ isInitialized)
       /\ (mounted /\ ~isInitialized) =>
             /\ storage' = storage
             /\ inputValue' = inputValue
             /\ lastOp'.name \in {"load", "renderError", "close"}
             /\ history' # history => lastOp'.name = "load"
      ]_vars

\* the loading screen of a session that follows one with a saved History
C16_Witness ==
    /\ mounted
    /\ ~isLoaded
    /\ hookVariant = "effect"
    /\ prevSession.ended
    /\ prevSession.writes = "ok"
    /\ Len(prevSession.history) > 0
    /\ storage.present
    /\ steps < MaxSteps

\* what the one-shot load gives for the item: the parsed History when the read
\* returned one, else the default
LoadedValue(read, item) ==
    IF read = "parsed" THEN JSONparse(item.text).value ELSE initialValue

\* C17: whenever isLoaded is true the load has already happened: until the
\* first user change storedValue is what the load gave (the parsed History of
\* the item, or the default), so the default is never shown and replaced
\* later; after that History changes by user actions only, and the load never
\* runs after a user action.
C17_NoHydrationHazard ==
    [][/\ (mounted' /\ isLoaded' /\ sessionWrites' = "none") =>
             /\ lastRead' \in {"parsed", "absent", "unparseable", "threw"}
             /\ history' = LoadedValue(lastRead', storage')
             /\ rendered' = history'
       /\ (mounted /\ isLoaded /\ mounted' /\ history' # history) => IsMutation(lastOp')
       /\ lastOp'.name = "load" =>
             /\ ~isLoaded
             /\ sessionWrites = "none"
             /\ history = initialValue
      ]_vars

\* the effect hook's page right after the load, showing the saved History
C17_Witness ==
    /\ Ready
    /\ hookVariant = "effect"
    /\ lastOp.name = "load"
    /\ lastRead = "parsed"
    /\ Len(history) > 0
    /\ history = JSONparse(storage.text).value
    /\ top9Numbers = Top9(history)

\* C18: from process start the session eventually is Ready, whether the read
\* returns a History, returns nothing, throws or returns unparseable text; in
\* the last three cases it is Ready with the default empty History; once Ready
\* it stays Ready.
C18_EventuallyReady ==
    /\ <>Ready
    /\ [][Ready => Ready']_vars
    /\ [][(lastOp'.name \in {"mount", "load"} /\ isLoaded') =>
             /\ lastRead' \in {"parsed", "absent", "threw", "unparseable"}
             /\ lastRead' # "parsed" => history' = initialValue
         ]_vars

\* the effect hook Ready with the default after a read that threw
C18_Witness ==
    /\ Ready
    /\ hookVariant = "effect"
    /\ lastOp.name = "load"
    /\ lastRead = "threw"
    /\ storage.present
    /\ history = initialValue

\* the operations as the user means them: add (by text, by the grid handler,
\* by a tap on a cell), undo, reset on a History
OperationOn(h, op) ==
    IF op.name \in {"handleAdd", "handleAddNumber", "clickNumberBox"}
    THEN IF Len(h) < MAX_HISTORY THEN <<op.value>> \o h
         ELSE <<op.value>> \o SubSeq(h, 1, MAX_HISTORY - 1)
    ELSE IF op.name = "handleUndo" THEN (IF h = <<>> THEN h ELSE Tail(h))
    ELSE <<>>

\* the operations of ops applied to h one after another, oldest first
RECURSIVE Replay(_, _)
Replay(h, ops) ==
    IF ops = <<>> THEN h ELSE Replay(OperationOn(h, Head(ops)), Tail(ops))

\* C19: after any sequence of user actions in Ready (text add, grid tap, undo,
\* reset), History and the item are the result of applying the corresponding
\* operations, in the order of the actions, to the starting History.
C19_ActionsApplyInOrder ==
    (Ready /\ Len(sessionLog.applied) > 0) =>
        /\ history = Replay(sessionLog.loaded, sessionLog.applied)
        /\ storage = Item(JSONstringify(Replay(sessionLog.loaded, sessionLog.applied)))

\* C20: a rejected input changes nothing: when handleAdd rejects the text, or
\* handleAddNumber a value outside [0, 36], History, the item and the input
\* text are unchanged, nothing is written, the page stays up and an alert
\* reports it; the program clears the input text only in an accepted handleAdd.
C20_RejectedInputChangesNothing ==
    [][/\ (lastOp'.name \in {"handleAdd", "handleAddNumber"} /\ ~lastOp'.accepted) =>
             /\ history' = history
             /\ storage' = storage
             /\ inputValue' = inputValue
             /\ top9Numbers' = top9Numbers
             /\ lastOp'.write = "none"
             /\ alertShown' # NoAlert
             /\ Ready'
       /\ (mounted' /\ inputValue # <<>> /\ inputValue' = <<>>) =>
             (lastOp'.name = "handleAdd" /\ lastOp'.accepted)
      ]_vars

\* "3.5" rejected by the dashboard over a restored History: text and History kept
C20_Witness ==
    /\ lastOp.name = "handleAdd"
    /\ ~lastOp.accepted
    /\ alertShown = WholeAlert
    /\ inputValue = <<"3", ".", "5">>
    /\ lastRead = "parsed"
    /\ Len(history) = MAX_HISTORY - 1
    /\ storage = Item(JSONstringify(history))

\* C21: reset is gated by confirmation.  A reset that the user declines leaves
\* History, the stored item, the pending input text and the highlighted set as
\* they were; a reset step empties a non-empty History only when the
\* confirmation was accepted.
C21_ResetGatedByConfirmation ==
    [][/\ (lastOp'.name = "reset" /\ ~lastOp'.accepted) =>
              /\ history' = history
              /\ storage' = storage
              /\ inputValue' = inputValue
              /\ top9Numbers' = top9Numbers
              /\ lastOp'.write = "none"
       /\ (lastOp'.name = "reset" /\ history # <<>> /\ history' = <<>>) =>
              lastOp'.accepted
      ]_vars

\* a declined reset over a restored History with text pending in the input
C21_Witness ==
    /\ lastOp.name = "reset"
    /\ ~lastOp.accepted
    /\ Len(history) > 0
    /\ storage.present
    /\ Len(inputValue) > 0

====
